---- MODULE Spec2Model ----
(***************************************************************************)
(* A model of the web-scraping Lambda of bedrock-web-crawler               *)
(* (src/lambda_function.py): lambda_handler, the URL resolver, the bounded *)
(* fetcher scrape_website, the text normaliser, the metadata extractor and *)
(* the two envelope builders.                                              *)
(*                                                                         *)
(* Python strings are sequences of one-character strings, Python values    *)
(* and dicts are records, and a formatted message is a record holding the  *)
(* format and its arguments.                                               *)
(***************************************************************************)
EXTENDS Integers, Sequences, FiniteSets, TLC

(***************************************************************************)
(* Sizes.  The byte and character limits of the program are scaled down so *)
(* that the cases around each limit are reachable.                         *)
(***************************************************************************)
\* MAX_CONTENT_SIZE (default 1024 * 1024, line 17), scaled.
MAX_CONTENT_SIZE == 4
\* chunk_size of iter_content (8192, line 132), scaled.
CHUNK_SIZE == 2
\* the text limit (10000, lines 176-177), scaled.
MAX_TEXT_LEN == 3
\* longest text soup.get_text() yields in the model.
MaxRawLen == 4
\* REQUEST_TIMEOUT default (line 18).
TIMEOUT == 30

(***************************************************************************)
(* Python values                                                           *)
(***************************************************************************)
None == [t |-> "None"]
Str(s) == [t |-> "str", s |-> s]
\* a truthy value that is not a string (a JSON number)
Num(i) == [t |-> "int", i |-> i]

\* Python truthiness of a value held in the event
Truthy(v) ==
    CASE v.t = "None" -> FALSE
      [] v.t = "str"  -> v.s # <<>>
      [] v.t = "int"  -> v.i # 0
      [] OTHER        -> TRUE

\* `a or b`
PyOr(a, b) == IF Truthy(a) THEN a ELSE b

(***************************************************************************)
(* Strings                                                                 *)
(***************************************************************************)
Letters == {"a", "g", "h", "o", "p", "s", "t", "x", "y"}
SchemeChars == Letters \cup {"+", "-", ".", "0", "1"}
Whitespace == {" ", "\n"}

\* index of the first position >= i of s holding a member of cs, or 0
RECURSIVE FindFrom(_, _, _)
FindFrom(s, cs, i) ==
    IF i > Len(s) THEN 0
    ELSE IF s[i] \in cs THEN i
    ELSE FindFrom(s, cs, i + 1)

\* s[i:] starts with p
StartsWithAt(s, i, p) ==
    /\ i + Len(p) - 1 <= Len(s)
    /\ \A k \in 1..Len(p) : s[i + k - 1] = p[k]

\* s[i:] (1-based)
Tail_(s, i) == IF i > Len(s) THEN <<>> ELSE SubSeq(s, i, Len(s))

(***************************************************************************)
(* urlparse, as far as is_valid_url reads it: scheme and netloc            *)
(***************************************************************************)
\* urlsplit's scheme: the text before the first ':' when it starts with a
\* letter and holds scheme characters only
UrlScheme(u) ==
    LET i == FindFrom(u, {":"}, 1) IN
    IF /\ i > 1
       /\ u[1] \in Letters
       /\ \A k \in 1..(i - 1) : u[k] \in SchemeChars
    THEN SubSeq(u, 1, i - 1)
    ELSE <<>>

UrlAfterScheme(u) ==
    IF UrlScheme(u) # <<>> THEN Tail_(u, Len(UrlScheme(u)) + 2) ELSE u

\* _splitnetloc: after '//', up to the first of '/', '?', '#'
UrlNetloc(u) ==
    LET r == UrlAfterScheme(u) IN
    IF StartsWithAt(r, 1, <<"/", "/">>)
    THEN LET d == FindFrom(r, {"/", "?", "#"}, 3) IN
         IF d = 0 THEN Tail_(r, 3) ELSE SubSeq(r, 3, d - 1)
    ELSE <<>>

Has(s, c) == \E k \in 1..Len(s) : s[k] = c

\* urlsplit raises ValueError("Invalid IPv6 URL") on an unbalanced bracket
UrlParseRaises(u) ==
    LET n == UrlNetloc(u) IN
    \/ Has(n, "[") /\ ~Has(n, "]")
    \/ Has(n, "]") /\ ~Has(n, "[")

\* is_valid_url asking for a scheme only
is_valid_url_scheme_only(v) ==
    IF v.t # "str" THEN FALSE
    ELSE IF UrlParseRaises(v.s) THEN FALSE
    ELSE UrlScheme(v.s) # <<>>

\* is_valid_url(url): urlparse of a non-string raises, which is caught (the
\* check of a bracketed host's address is not modelled: no input has one)
is_valid_url(v) ==
    IF v.t # "str" THEN FALSE
    ELSE IF UrlParseRaises(v.s) THEN FALSE
    ELSE UrlScheme(v.s) # <<>> /\ UrlNetloc(v.s) # <<>>

(***************************************************************************)
(* extract_url_from_text: the first match of the URL pattern, or None       *)
(***************************************************************************)
\* the characters the pattern's class excludes (the quote, the backslash and
\* the backquote, which no input of the model holds, are left out)
UrlStopChars == Whitespace \cup {"<", ">", "{", "}", "|", "^", "[", "]"}

\* length of the 'https?://' prefix matched at i, or 0
UrlPrefixAt(s, i) ==
    IF StartsWithAt(s, i, <<"h", "t", "t", "p", ":", "/", "/">>) THEN 7
    ELSE IF StartsWithAt(s, i, <<"h", "t", "t", "p", "s", ":", "/", "/">>) THEN 8
    ELSE 0

\* the pattern matches at i: the prefix and at least one body character
UrlMatchAt(s, i) ==
    LET n == UrlPrefixAt(s, i) IN
    /\ n > 0
    /\ i + n <= Len(s)
    /\ s[i + n] \notin UrlStopChars

\* the greedy body ends before the first stop character
UrlMatchEnd(s, i) ==
    LET e == FindFrom(s, UrlStopChars, i + UrlPrefixAt(s, i)) IN
    IF e = 0 THEN Len(s) ELSE e - 1

RECURSIVE FirstMatch(_, _)
FirstMatch(s, i) ==
    IF i > Len(s) THEN 0
    ELSE IF UrlMatchAt(s, i) THEN i
    ELSE FirstMatch(s, i + 1)

extract_url_from_text(text) ==
    LET i == FirstMatch(text, 1) IN
    IF i = 0 THEN None ELSE Str(SubSeq(text, i, UrlMatchEnd(text, i)))

(***************************************************************************)
(* Content normaliser (lines 167-177)                                      *)
(***************************************************************************)
\* s.strip()
RECURSIVE LStrip(_)
LStrip(s) ==
    IF s = <<>> THEN <<>>
    ELSE IF s[1] \in Whitespace THEN LStrip(Tail(s))
    ELSE s

RECURSIVE RStrip(_)
RStrip(s) ==
    IF s = <<>> THEN <<>>
    ELSE IF s[Len(s)] \in Whitespace THEN RStrip(SubSeq(s, 1, Len(s) - 1))
    ELSE s

Strip(s) == RStrip(LStrip(s))

\* s.split(sep), sep of length n, scanning left to right from position i with
\* the current piece starting at b
RECURSIVE SplitFrom(_, _, _, _)
SplitFrom(s, sep, b, i) ==
    IF i > Len(s) THEN << SubSeq(s, b, Len(s)) >>
    ELSE IF StartsWithAt(s, i, sep)
         THEN << SubSeq(s, b, i - 1) >> \o SplitFrom(s, sep, i + Len(sep), i + Len(sep))
         ELSE SplitFrom(s, sep, b, i + 1)

Split(s, sep) == SplitFrom(s, sep, 1, 1)

\* text_content.splitlines(): like a split at the line ends, without the
\* empty last line a trailing line end leaves
SplitLines(s) ==
    IF s = <<>> THEN <<>>
    ELSE LET ps == Split(s, <<"\n">>) IN
         IF ps[Len(ps)] = <<>> THEN SubSeq(ps, 1, Len(ps) - 1) ELSE ps

\* [f(x) for x in xs]
MapStrip(xs) == [k \in 1..Len(xs) |-> Strip(xs[k])]

\* the phrases of all the lines, in order
RECURSIVE Phrases(_)
Phrases(ls) ==
    IF ls = <<>> THEN <<>>
    ELSE MapStrip(Split(ls[1], <<" ", " ">>)) \o Phrases(Tail(ls))

\* ' '.join(chunk for chunk in chunks if chunk)
RECURSIVE JoinNonEmpty(_)
JoinNonEmpty(cs) ==
    IF cs = <<>> THEN <<>>
    ELSE LET rest == JoinNonEmpty(Tail(cs)) IN
         IF cs[1] = <<>> THEN rest
         ELSE IF rest = <<>> THEN cs[1]
         ELSE cs[1] \o <<" ">> \o rest

\* lines 171-173
CleanText(text_content) == JoinNonEmpty(Phrases(MapStrip(SplitLines(text_content))))

\* "... [content truncated]"
TruncationMarker ==
    << ".", ".", ".", " ", "[", "c", "o", "n", "t", "e", "n", "t", " ",
       "t", "r", "u", "n", "c", "a", "t", "e", "d", "]" >>

\* lines 176-177 cutting a text that is exactly as long as the limit
LimitText_at_limit(clean_text) ==
    IF Len(clean_text) >= MAX_TEXT_LEN
    THEN SubSeq(clean_text, 1, MAX_TEXT_LEN) \o TruncationMarker
    ELSE clean_text

\* lines 176-177
LimitText(clean_text) ==
    IF Len(clean_text) > MAX_TEXT_LEN
    THEN SubSeq(clean_text, 1, MAX_TEXT_LEN) \o TruncationMarker
    ELSE clean_text

(***************************************************************************)
(* Metadata extractor (lines 180-184)                                      *)
(*                                                                         *)
(* A parsed element is [contents |-> children]; a child is a string        *)
(* [k |-> "str", s |-> ...] or an element [k |-> "tag", contents |-> ...]. *)
(***************************************************************************)
TextNode(s) == [k |-> "str", s |-> s]
TagNode(cs) == [k |-> "tag", contents |-> cs]

\* Tag.string: the single string child, looked for through single element
\* children; None when the element has no child or more than one
RECURSIVE TagString(_)
TagString(tag) ==
    IF Len(tag.contents) # 1 THEN None
    ELSE LET child == tag.contents[1] IN
         IF child.k = "str" THEN Str(child.s) ELSE TagString(child)

\* soup.find('title') found an element (a Tag is always truthy)
NoTitle == [found |-> FALSE]
TitleTag(cs) == [found |-> TRUE, contents |-> cs]

\* line 181 raises AttributeError: title.string is None, and None has no strip
TitleRaises(title) == title.found /\ TagString(title).t = "None"

\* line 181
TitleText(title) ==
    IF title.found THEN Strip(TagString(title).s)
    ELSE << "N", "o", " ", "t", "i", "t", "l", "e", " ", "f", "o", "u", "n", "d" >>

\* soup.find('meta', attrs={'name': 'description'})
NoMeta == [found |-> FALSE]
MetaTag(attrs) == [found |-> TRUE, attrs |-> attrs]

\* line 184: meta_description.get('content', '') if meta_description else ''
Description(meta) ==
    IF meta.found
    THEN IF "content" \in DOMAIN meta.attrs THEN meta.attrs["content"] ELSE <<>>
    ELSE <<>>

(***************************************************************************)
(* Messages, exceptions and envelopes                                      *)
(***************************************************************************)
\* an f-string: its format and the values it interpolates
Msg(fmt, args) == [fmt |-> fmt, args |-> args]

\* an exception: its class and str(e)
Exc(cls, text) == [cls |-> cls, text |-> text]
\* str(e) as a value interpolated into a message
ExcText(e) == [t |-> "exc", text |-> e.text]

\* requests.exceptions: the subclasses of Timeout and of RequestException
TimeoutClasses == {"Timeout", "ConnectTimeout", "ReadTimeout"}
RequestExceptionClasses ==
    TimeoutClasses \cup {"RequestException", "ConnectionError", "HTTPError",
                         "TooManyRedirects", "ChunkedEncodingError",
                         "ContentDecodingError"}

\* lines 226-241 and 250-265: the envelope around a text body; body is the
\* JSON document json.dumps writes
Envelope(text) ==
    [statusCode |-> 200,
     body |-> [response |->
                 [actionGroup |-> "web_scrape",
                  function |-> "scrape_website",
                  functionResponse |-> [responseBody |-> [TEXT |-> [body |-> text]]]]]]

\* create_error_response reporting the error in the status code as well
create_error_response_500(error_message) ==
    [ Envelope(Msg("Error: {error_message}", << error_message >>))
        EXCEPT !.statusCode = 500 ]

\* create_error_response (lines 246-268)
create_error_response(error_message) ==
    Envelope(Msg("Error: {error_message}", << error_message >>))

\* create_success_response reading a key the failure dict does not have
create_success_response_wrong_key(scraped_data) ==
    IF scraped_data.success
    THEN Envelope(Msg("Successfully scraped: {title}\nURL: {url}\nContent length: {content_length} characters\n\nContent:\n{content}",
                      << Str(scraped_data.title), scraped_data.url,
                         Num(scraped_data.content_length), Str(scraped_data.content) >>))
    ELSE Envelope(Msg("Failed to scrape website: {error}",
                      << IF "message" \in DOMAIN scraped_data
                         THEN scraped_data.message
                         ELSE Msg("Unknown error", << >>) >>))

\* create_success_response (lines 212-244)
create_success_response(scraped_data) ==
    IF scraped_data.success
    THEN Envelope(Msg("Successfully scraped: {title}\nURL: {url}\nContent length: {content_length} characters\n\nContent:\n{content}",
                      << Str(scraped_data.title), scraped_data.url,
                         Num(scraped_data.content_length), Str(scraped_data.content) >>))
    ELSE Envelope(Msg("Failed to scrape website: {error}",
                      << IF "error" \in DOMAIN scraped_data
                         THEN scraped_data.error
                         ELSE Msg("Unknown error", << >>) >>))

\* the failure dict scrape_website returns
Failure(error) == [success |-> FALSE, error |-> error]

(***************************************************************************)
(* Inputs                                                                  *)
(***************************************************************************)
\* dict.get(key, default) on a dict held as a record
DictGet(d, key, default) == IF key \in DOMAIN d THEN d[key] ELSE default

Dict(d) == [t |-> "dict", d |-> d]
EmptyDict == Dict([k \in {} |-> None])

U_valid == << "h", "t", "t", "p", ":", "/", "/", "x" >>
U_valid2 == << "h", "t", "t", "p", "s", ":", "/", "/", "y" >>
U_nohost == << "a", ":", "x" >>
U_noscheme == << "/", "/", "x" >>
U_ipv6 == << "h", ":", "/", "/", "[", "x" >>
\* "go http://x/a to"
T_url == << "g", "o", " " >> \o U_valid \o << "/", "a", " ", "t", "o" >>
\* "http:///x": matched by the pattern, without a host
T_nohost == << "h", "t", "t", "p", ":", "/", "/", "/", "x" >>
T_none == << "g", "o" >>

UrlFieldValues ==
    { None, Str(<< >>), Str(U_valid), Str(U_nohost), Str(U_noscheme), Str(U_ipv6), Num(7) }

\* the requestBody values of the model
RequestBodies ==
    { Dict([url |-> u]) : u \in UrlFieldValues }
    \cup { Dict([website_url |-> Str(U_valid2)]),
           Dict([url |-> Str(<< >>), website_url |-> Str(U_valid2)]),
           Dict([url |-> Str(U_valid), website_url |-> Str(U_valid2)]),
           EmptyDict, Str(U_valid) }

InputTexts == { Str(T_url), Str(T_nohost), Str(T_none), Num(7) }

\* the events of the model: JSON objects with or without the two keys, an
\* object json.dumps cannot write, and an event that is no dict
Events ==
    { [t |-> "dict", serializable |-> TRUE, d |-> [requestBody |-> b]] :
        b \in RequestBodies }
    \cup { [t |-> "dict", serializable |-> TRUE, d |-> [inputText |-> x]] :
        x \in InputTexts }
    \cup { [t |-> "dict", serializable |-> TRUE,
            d |-> [inputText |-> Str(T_url), requestBody |-> b]] :
        b \in { Dict([url |-> Str(U_valid2)]), Dict([url |-> Str(<< >>)]),
                Dict([website_url |-> Str(U_valid2)]), Str(U_valid2) } }
    \cup { [t |-> "dict", serializable |-> FALSE, d |-> [inputText |-> Str(T_url)]],
           [t |-> "dict", serializable |-> TRUE, d |-> [k \in {} |-> None]],
           None }

\* a context object with aws_request_id and function_name, and one without
Contexts == { [t |-> "LambdaContext"], None }

\* the responses requests.get returns: the final status, the two headers the
\* code reads (a Content-Length is absent, no number, or the digits of a
\* number), and gz, the number of gzip wrappers around the HTML on the wire
Statuses == { 200, 304, 404, 503 }
ContentLengths ==
    { None, Str(<< "x" >>), Num(MAX_CONTENT_SIZE), Num(MAX_CONTENT_SIZE + 1) }
Responses ==
    [ status : Statuses,
      content_length : ContentLengths,
      content_encoding : { None, Str(<< "g", "z", "i", "p" >>) },
      gz : 0..2,
      redirected : BOOLEAN ]

\* the documents BeautifulSoup parses out of the decoded content: what
\* soup.find('title') and soup.find('meta', ...) find, and what
\* soup.get_text() returns once the five kinds of element are removed
RECURSIVE As(_)
As(n) == IF n = 0 THEN << >> ELSE << "a" >> \o As(n - 1)

Titles ==
    { NoTitle,
      TitleTag(<< >>),
      TitleTag(<< TextNode(<< " ", "t", " " >>) >>),
      TitleTag(<< TagNode(<< TextNode(<< "t" >>) >>) >>),
      TitleTag(<< TextNode(<< "t" >>), TagNode(<< TextNode(<< "t" >>) >>) >>) }

Metas ==
    { NoMeta,
      MetaTag([name |-> << "d" >>]),
      MetaTag([name |-> << "d" >>, content |-> << "d" >>]) }

Texts ==
    { As(n) : n \in 0..MaxRawLen }
    \cup { << " " >> \o As(n) \o << " ", " ", "\n" >> \o As(1) :
             n \in (MAX_TEXT_LEN - 2)..(MAX_TEXT_LEN - 1) }

Docs == [ title : Titles, meta : Metas, text : Texts ]
EmptyDoc == [ title |-> NoTitle, meta |-> NoMeta, text |-> << >> ]
\* compressed bytes decoded as text: no element, some characters
JunkDoc == [ title |-> NoTitle, meta |-> NoMeta, text |-> << "x" >> ]

(***************************************************************************)
(* State                                                                   *)
(***************************************************************************)
VARIABLES
    pc,             \* where the invocation is
    event,          \* lambda_handler's event
    context,        \* lambda_handler's context
    url,            \* lambda_handler's url, scrape_website's argument
    netCalls,       \* the number of requests.get calls issued
    response,       \* what requests.get returned
    bodyRead,       \* response.iter_content was advanced
    total_size,     \* scrape_website's total_size
    content_bytes,  \* len(content_bytes) while the body is streamed
    soup,           \* the document BeautifulSoup parsed
    fault,          \* what went wrong on the network, "none" if nothing
    exc,            \* the exception raised and not yet handled, or escaped
    scraped_content,\* what scrape_website returned
    returned        \* what lambda_handler returned

\* BedrockAgentSetup.wait_for_agent_ready (src/setup_bedrock_agent.py)
VARIABLES
    w_pc,           \* where the call of wait_for_agent_ready is
    elapsed,        \* time.time() - start_time
    polls,          \* the number of get_agent calls
    agent_status,   \* the status the last poll observed
    failedAt,       \* the poll that first observed FAILED, 0 if none did
    w_exc           \* the exception raised in the call, "" if none

waitVars == << w_pc, elapsed, polls, agent_status, failedAt, w_exc >>

lambdaVars == << pc, event, context, url, netCalls, response, bodyRead, total_size,
                 content_bytes, soup, fault, exc, scraped_content, returned >>

vars == << pc, event, context, url, netCalls, response, bodyRead, total_size,
           content_bytes, soup, fault, exc, scraped_content, returned,
           w_pc, elapsed, polls, agent_status, failedAt, w_exc >>

Init ==
    /\ pc = "idle"
    /\ event = None
    /\ context = None
    /\ url = None
    /\ netCalls = 0
    /\ response = None
    /\ bodyRead = FALSE
    /\ total_size = 0
    /\ content_bytes = 0
    /\ soup = None
    /\ fault = "none"
    /\ exc = None
    /\ scraped_content = None
    /\ returned = None
    /\ w_pc = "idle"
    /\ elapsed = 0
    /\ polls = 0
    /\ agent_status = ""
    /\ failedAt = 0
    /\ w_exc = ""

\* the Lambda runtime calls lambda_handler(event, context)
Invoke(e, c) ==
    /\ pc = "idle"
    /\ pc' = "entry"
    /\ event' = e
    /\ context' = c
    /\ UNCHANGED << url, netCalls, response, bodyRead, total_size, content_bytes,
                    fault, exc, scraped_content, returned, soup >>
    /\ UNCHANGED waitVars

\* lines 26-27, before the try: json.dumps(event) and the two attributes of
\* context; what they raise leaves lambda_handler
LogInvocation ==
    /\ pc = "entry"
    /\ IF event.t = "dict" /\ ~event.serializable
       THEN /\ pc' = "raised"
            /\ exc' = Exc("TypeError", "Object is not JSON serializable")
       ELSE IF context.t = "None"
       THEN /\ pc' = "raised"
            /\ exc' = Exc("AttributeError", "'NoneType' object has no attribute 'aws_request_id'")
       ELSE /\ pc' = "resolve"
            /\ exc' = exc
    /\ UNCHANGED << event, context, url, netCalls, response, bodyRead, total_size,
                    content_bytes, fault, scraped_content, returned, soup >>
    /\ UNCHANGED waitVars

\* lines 31-32
InputData(ev) == DictGet(ev.d, "inputText", Str(<< >>))
RequestBody(ev) == DictGet(ev.d, "requestBody", EmptyDict)

\* lines 38-40 asking for 'website_url' before 'url'
StructuredUrl_website_first(ev) ==
    LET request_body == RequestBody(ev) IN
    IF request_body.t = "dict"
    THEN PyOr(DictGet(request_body.d, "website_url", None),
              DictGet(request_body.d, "url", None))
    ELSE None

\* lines 38-40
StructuredUrl(ev) ==
    LET request_body == RequestBody(ev) IN
    IF request_body.t = "dict"
    THEN PyOr(DictGet(request_body.d, "url", None),
              DictGet(request_body.d, "website_url", None))
    ELSE None

\* line 42: the text is searched
SearchesText(ev) == ~Truthy(StructuredUrl(ev)) /\ Truthy(InputData(ev))

\* lines 38-44
ResolvedUrl(ev) ==
    IF SearchesText(ev) THEN extract_url_from_text(InputData(ev).s)
    ELSE StructuredUrl(ev)

\* lines 31-57, inside the try
ResolveUrl ==
    /\ pc = "resolve"
    /\ IF event.t # "dict"
       THEN \* line 31: event.get
            /\ pc' = "except"
            /\ exc' = Exc("AttributeError", "'NoneType' object has no attribute 'get'")
            /\ UNCHANGED << url, returned >>
       ELSE IF SearchesText(event) /\ InputData(event).t # "str"
       THEN \* line 85: re.findall on a value that is no string
            /\ pc' = "except"
            /\ exc' = Exc("TypeError", "expected string or bytes-like object")
            /\ UNCHANGED << url, returned >>
       ELSE /\ url' = ResolvedUrl(event)
            /\ exc' = exc
            /\ IF ~Truthy(url')
               THEN /\ returned' = create_error_response(
                           Msg("No valid URL provided. Please provide a URL to scrape.", << >>))
                    /\ pc' = "done"
               ELSE IF ~is_valid_url(url')
               THEN /\ returned' = create_error_response(
                           Msg("Invalid URL format: {url}", << url' >>))
                    /\ pc' = "done"
               ELSE /\ returned' = returned
                    /\ pc' = "get"
    /\ UNCHANGED << event, context, netCalls, response, bodyRead, total_size,
                    content_bytes, fault, scraped_content, soup >>
    /\ UNCHANGED waitVars

\* lines 75-79
HandleException ==
    /\ pc = "except"
    /\ returned' = create_error_response(
           Msg("Error scraping website: {str(e)}", << ExcText(exc) >>))
    /\ exc' = None
    /\ pc' = "done"
    /\ UNCHANGED << event, context, url, netCalls, response, bodyRead, total_size,
                    content_bytes, fault, scraped_content, soup >>
    /\ UNCHANGED waitVars

(***************************************************************************)
(* scrape_website (lines 96-210)                                           *)
(***************************************************************************)
\* what can go wrong between requests.get's call and its return
GetFaults == { "connect_timeout", "read_timeout", "connection_error", "too_many_redirects" }
\* what can go wrong while response.iter_content reads the body
BodyFaults == { "read_timeout", "protocol_error" }

\* the exception requests.get raises on a fault (line 111): a timeout of the
\* connection is a ConnectTimeout, a timeout of the response a ReadTimeout
GetRaises(f) ==
    CASE f = "connect_timeout"    -> Exc("ConnectTimeout", "Connection timed out")
      [] f = "read_timeout"       -> Exc("ReadTimeout", "Read timed out")
      [] f = "connection_error"   -> Exc("ConnectionError", "Connection refused")
      [] f = "too_many_redirects" -> Exc("TooManyRedirects", "Exceeded 30 redirects")

\* the exception response.iter_content raises on a fault (line 132): it turns
\* a read timeout of the body into a ConnectionError
IterContentRaises(f) ==
    CASE f = "read_timeout"   -> Exc("ConnectionError", "Read timed out")
      [] f = "protocol_error" -> Exc("ChunkedEncodingError", "Connection broken")
      [] f = "decode_error"   -> Exc("ContentDecodingError", "Received response with content-encoding: gzip, but failed to decode it")

\* lines 111-117
RequestsGetFails(f) ==
    /\ pc = "get"
    /\ netCalls' = netCalls + 1
    /\ fault' = f
    /\ exc' = GetRaises(f)
    /\ pc' = "caught"
    /\ UNCHANGED << event, context, url, response, bodyRead, total_size,
                    content_bytes, scraped_content, returned, soup >>
    /\ UNCHANGED waitVars

RequestsGet(r) ==
    /\ pc = "get"
    /\ netCalls' = netCalls + 1
    /\ response' = r
    /\ pc' = "status"
    /\ UNCHANGED << event, context, url, bodyRead, total_size, content_bytes,
                    fault, exc, scraped_content, returned, soup >>
    /\ UNCHANGED waitVars

\* Response.raise_for_status raises HTTPError for 400 <= status < 600
StatusRaises(status) == 400 <= status /\ status < 600

\* line 118
RaiseForStatus ==
    /\ pc = "status"
    /\ IF StatusRaises(response.status)
       THEN /\ exc' = Exc("HTTPError", IF response.status < 500 THEN "Client Error" ELSE "Server Error")
            /\ pc' = "caught"
       ELSE /\ exc' = exc
            /\ pc' = "length"
    /\ UNCHANGED << event, context, url, netCalls, response, bodyRead, total_size,
                    content_bytes, fault, scraped_content, returned, soup >>
    /\ UNCHANGED waitVars

\* line 122 letting one byte more through
DeclaredTooLarge_off_by_one(content_length) ==
    content_length.t # "None" /\ content_length.i > MAX_CONTENT_SIZE + 1

\* line 122: the declared length is over the limit
DeclaredTooLarge(content_length) ==
    content_length.t # "None" /\ content_length.i > MAX_CONTENT_SIZE

\* lines 121-130: int() of a header that is no number raises ValueError
CheckContentLength ==
    /\ pc = "length"
    /\ LET content_length == response.content_length IN
       IF content_length.t = "str"
       THEN /\ exc' = Exc("ValueError", "invalid literal for int() with base 10")
            /\ pc' = "caught"
            /\ UNCHANGED << scraped_content, total_size, content_bytes >>
       ELSE IF DeclaredTooLarge(content_length)
       THEN /\ scraped_content' = Failure(
                   Msg("Content too large: {content_length} bytes (max: {MAX_CONTENT_SIZE})",
                       << content_length, Num(MAX_CONTENT_SIZE) >>))
            /\ pc' = "scraped"
            /\ UNCHANGED << exc, total_size, content_bytes >>
       ELSE /\ content_bytes' = 0
            /\ total_size' = 0
            /\ pc' = "stream"
            /\ UNCHANGED << exc, scraped_content >>
    /\ UNCHANGED << event, context, url, netCalls, response, bodyRead, fault, returned, soup >>
    /\ UNCHANGED waitVars

\* the response declares gzip
GzipName == << "g", "z", "i", "p" >>
DeclaresGzip(r) == r.content_encoding = Str(GzipName)

\* iter_content undoes the declared encoding: it cannot when the body is not
\* gzip, and raises
TransportDecodeFails(r) == DeclaresGzip(r) /\ r.gz = 0

\* the gzip wrappers left around the HTML in the bytes iter_content yields
YieldedGz(r) == IF DeclaresGzip(r) THEN r.gz - 1 ELSE r.gz

\* line 134 letting one byte more through
OverLimit_off_by_one(size) == size > MAX_CONTENT_SIZE + 1

\* the size check of the loop (line 134)
OverLimit(size) == size > MAX_CONTENT_SIZE

\* lines 132-139: one turn of the loop on a chunk of n bytes
ReadChunk(n) ==
    /\ pc = "stream"
    /\ ~TransportDecodeFails(response)
    /\ bodyRead' = TRUE
    /\ total_size' = total_size + n
    /\ IF OverLimit(total_size')
       THEN /\ scraped_content' = Failure(
                   Msg("Content too large: exceeded {MAX_CONTENT_SIZE} bytes",
                       << Num(MAX_CONTENT_SIZE) >>))
            /\ pc' = "scraped"
            /\ UNCHANGED content_bytes
       ELSE /\ content_bytes' = content_bytes + n
            /\ UNCHANGED << pc, scraped_content >>
    /\ UNCHANGED << event, context, url, netCalls, response, fault, exc, returned, soup >>
    /\ UNCHANGED waitVars

\* line 132: the iterator raises instead of yielding
ReadChunkFails(f) ==
    /\ pc = "stream"
    /\ f = "decode_error" => TransportDecodeFails(response) /\ total_size = 0
    /\ bodyRead' = TRUE
    /\ fault' = f
    /\ exc' = IterContentRaises(f)
    /\ pc' = "caught"
    /\ UNCHANGED << event, context, url, netCalls, response, total_size, content_bytes,
                    scraped_content, returned, soup >>
    /\ UNCHANGED waitVars

\* line 132: the iterator is exhausted
StreamEnds ==
    /\ pc = "stream"
    /\ TransportDecodeFails(response) => total_size = 0
    /\ bodyRead' = TRUE
    /\ pc' = "gunzip"
    /\ UNCHANGED << event, context, url, netCalls, response, total_size, content_bytes,
                    fault, exc, scraped_content, returned, soup >>
    /\ UNCHANGED waitVars

\* gzip.decompress raises on bytes that are not gzip; of no bytes it makes
\* no bytes
DecompressRaises(r, size) == size > 0 /\ YieldedGz(r) = 0

\* the gzip wrappers left around the HTML after lines 142-149
ContentGz(r, size) ==
    IF DeclaresGzip(r) /\ size > 0 THEN YieldedGz(r) - 1 ELSE YieldedGz(r)

\* lines 142-149
Gunzip ==
    /\ pc = "gunzip"
    /\ IF DeclaresGzip(response) /\ DecompressRaises(response, content_bytes)
       THEN /\ scraped_content' = Failure(
                   Msg("Failed to decompress gzip content: {str(e)}",
                       << ExcText(Exc("BadGzipFile", "Not a gzipped file")) >>))
            /\ pc' = "scraped"
       ELSE /\ pc' = "parse"
            /\ UNCHANGED scraped_content
    /\ UNCHANGED << event, context, url, netCalls, response, bodyRead, total_size,
                    content_bytes, fault, exc, returned, soup >>
    /\ UNCHANGED waitVars

\* the documents the content can be: none but the empty one of no bytes, and
\* of bytes still compressed only text without elements
DocsOf(r, size) ==
    IF size = 0 THEN { EmptyDoc }
    ELSE IF ContentGz(r, size) > 0 THEN { JunkDoc }
    ELSE Docs

\* response.url: the URL asked for, or the one the redirects led to
RedirectTarget == << "h", "t", "t", "p", ":", "/", "/", "r" >>
FinalUrl(r, u) == IF r.redirected THEN Str(RedirectTarget) ELSE u

\* lines 186-194 with the length taken before the marker is appended
SuccessResult_length_before_marker(u, r, doc) ==
    LET clean_text == LimitText(CleanText(doc.text)) IN
    [ success |-> TRUE,
      url |-> u,
      title |-> TitleText(doc.title),
      description |-> Description(doc.meta),
      content |-> clean_text,
      content_length |->
          IF Len(CleanText(doc.text)) > MAX_TEXT_LEN
          THEN MAX_TEXT_LEN ELSE Len(clean_text),
      final_url |-> FinalUrl(r, u) ]

\* lines 186-194, with clean_text as lines 171-177 leave it
SuccessResult(u, r, doc) ==
    LET clean_text == LimitText(CleanText(doc.text)) IN
    [ success |-> TRUE,
      url |-> u,
      title |-> TitleText(doc.title),
      description |-> Description(doc.meta),
      content |-> clean_text,
      content_length |-> Len(clean_text),
      final_url |-> FinalUrl(r, u) ]

\* lines 152-194: decode, parse, clean, extract
ParseDocument(doc) ==
    /\ pc = "parse"
    /\ doc \in DocsOf(response, content_bytes)
    /\ soup' = doc
    /\ IF TitleRaises(doc.title)
       THEN /\ exc' = Exc("AttributeError", "'NoneType' object has no attribute 'strip'")
            /\ pc' = "caught"
            /\ UNCHANGED scraped_content
       ELSE /\ scraped_content' = SuccessResult(url, response, doc)
            /\ pc' = "scraped"
            /\ UNCHANGED exc
    /\ UNCHANGED << event, context, url, netCalls, response, bodyRead, total_size,
                    content_bytes, fault, returned >>
    /\ UNCHANGED waitVars

\* the except clauses of lines 196-210, tried in their order
ErrorOf(e) ==
    IF e.cls \in TimeoutClasses
    THEN Msg("Request timeout after {TIMEOUT} seconds", << Num(TIMEOUT) >>)
    ELSE IF e.cls \in RequestExceptionClasses
    THEN Msg("Request failed: {str(e)}", << ExcText(e) >>)
    ELSE Msg("Parsing error: {str(e)}", << ExcText(e) >>)

\* lines 196-210
ScrapeExcept ==
    /\ pc = "caught"
    /\ scraped_content' = Failure(ErrorOf(exc))
    /\ exc' = None
    /\ pc' = "scraped"
    /\ UNCHANGED << event, context, url, netCalls, response, bodyRead, total_size,
                    content_bytes, fault, returned, soup >>
    /\ UNCHANGED waitVars

\* lines 64-73
CreateResponse ==
    /\ pc = "scraped"
    /\ returned' = create_success_response(scraped_content)
    /\ pc' = "done"
    /\ UNCHANGED << event, context, url, netCalls, response, bodyRead, total_size,
                    content_bytes, fault, exc, scraped_content, soup >>
    /\ UNCHANGED waitVars

(***************************************************************************)
(* Specification                                                           *)
(***************************************************************************)
Next ==
    \/ \E e \in Events, c \in Contexts : Invoke(e, c)
    \/ LogInvocation
    \/ ResolveUrl
    \/ HandleException
    \/ \E f \in GetFaults : RequestsGetFails(f)
    \/ \E r \in Responses : RequestsGet(r)
    \/ RaiseForStatus
    \/ CheckContentLength
    \/ \E n \in 1..CHUNK_SIZE : ReadChunk(n)
    \/ \E f \in BodyFaults \cup { "decode_error" } : ReadChunkFails(f)
    \/ StreamEnds
    \/ Gunzip
    \/ \E doc \in Docs \cup { EmptyDoc, JunkDoc } : ParseDocument(doc)
    \/ ScrapeExcept
    \/ CreateResponse

Spec == Init /\ [][Next]_vars

(***************************************************************************)
(* BedrockAgentSetup.wait_for_agent_ready                                  *)
(* (src/setup_bedrock_agent.py, lines 15-42)                               *)
(***************************************************************************)
\* max_wait_time (default 300, line 15), scaled.
MaxWaitTime == 30
\* the longest a get_agent call takes in the model, in seconds.
MaxLatency == 5
\* time.sleep(10) (lines 33, 36, 40).
WAIT_SLEEP == 10

\* the statuses get_agent reports; DELETING stands for those the code does
\* not name
ReadyStatuses == { "NOT_PREPARED", "PREPARED", "FAILED" }
BusyStatuses == { "CREATING", "UPDATING", "PREPARING" }
AgentStatuses == ReadyStatuses \cup BusyStatuses \cup { "DELETING" }
Latencies == { 0, MaxLatency }

\* lines 17-18
StartWait ==
    /\ w_pc = "idle"
    /\ w_pc' = "loop"
    /\ elapsed' = 0
    /\ UNCHANGED << polls, agent_status, failedAt, w_exc >>
    /\ UNCHANGED lambdaVars

\* line 20, and line 42 when the loop ends
LoopTest ==
    /\ w_pc = "loop"
    /\ IF elapsed < MaxWaitTime
       THEN /\ w_pc' = "poll"
            /\ UNCHANGED w_exc
       ELSE /\ w_pc' = "raised"
            /\ w_exc' = "Agent did not become ready"
    /\ UNCHANGED << elapsed, polls, agent_status, failedAt >>
    /\ UNCHANGED lambdaVars

\* lines 22-36: get_agent answers with a status after some time; the raise
\* of line 28 is inside the try of line 21
Poll(status, latency) ==
    /\ w_pc = "poll"
    /\ polls' = polls + 1
    /\ agent_status' = status
    /\ failedAt' = IF status = "FAILED" /\ failedAt = 0 THEN polls' ELSE failedAt
    /\ IF status \in ReadyStatuses
       THEN IF status = "FAILED"
            THEN /\ w_exc' = "Agent creation failed"
                 /\ w_pc' = "except"
                 /\ elapsed' = elapsed + latency
            ELSE /\ w_pc' = "returned"
                 /\ elapsed' = elapsed + latency
                 /\ UNCHANGED w_exc
       ELSE /\ elapsed' = elapsed + latency + WAIT_SLEEP
            /\ w_pc' = "loop"
            /\ UNCHANGED w_exc
    /\ UNCHANGED lambdaVars

\* line 22: get_agent raises
PollFails(latency) ==
    /\ w_pc = "poll"
    /\ polls' = polls + 1
    /\ elapsed' = elapsed + latency
    /\ w_exc' = "ClientError"
    /\ w_pc' = "except"
    /\ UNCHANGED << agent_status, failedAt >>
    /\ UNCHANGED lambdaVars

\* lines 38-40: whatever was raised in the try is printed, and the loop goes on
WaitExcept ==
    /\ w_pc = "except"
    /\ w_exc' = ""
    /\ elapsed' = elapsed + WAIT_SLEEP
    /\ w_pc' = "loop"
    /\ UNCHANGED << polls, agent_status, failedAt >>
    /\ UNCHANGED lambdaVars

NextWait ==
    \/ StartWait
    \/ LoopTest
    \/ \E st \in AgentStatuses, l \in Latencies : Poll(st, l)
    \/ \E l \in Latencies : PollFails(l)
    \/ WaitExcept

SpecWait == Init /\ [][NextWait]_vars

(***************************************************************************)
(* Properties                                                              *)
(***************************************************************************)
\* the text body inside an envelope
EnvelopeText(env) == env.body.response.functionResponse.responseBody.TEXT.body

\* scrape_website has returned
Scraped == pc \in { "scraped", "done" } /\ scraped_content # None
\* scrape_website has returned a failure with this message format
FailedWith(fmt) ==
    Scraped /\ ~scraped_content.success /\ scraped_content.error.fmt = fmt

\* C1: every envelope lambda_handler returns, on every path, has statusCode
\* 200 and the same nested shape with actionGroup 'web_scrape' and function
\* 'scrape_website', whether the scrape inside succeeded or not.
C1_EnvelopeAlwaysOk ==
    returned # None =>
        /\ DOMAIN returned = { "statusCode", "body" }
        /\ returned.statusCode = 200
        /\ DOMAIN returned.body = { "response" }
        /\ DOMAIN returned.body.response = { "actionGroup", "function", "functionResponse" }
        /\ returned.body.response.actionGroup = "web_scrape"
        /\ returned.body.response.function = "scrape_website"
        /\ DOMAIN returned.body.response.functionResponse = { "responseBody" }
        /\ DOMAIN returned.body.response.functionResponse.responseBody = { "TEXT" }
        /\ DOMAIN returned.body.response.functionResponse.responseBody.TEXT = { "body" }

\* an error envelope (here of an exception caught at line 75) is returned
\* with status 200
C1_Witness ==
    /\ pc = "done"
    /\ returned # None
    /\ returned.statusCode = 200
    /\ EnvelopeText(returned).fmt = "Error: {error_message}"
    /\ EnvelopeText(returned).args[1].fmt = "Error scraping website: {str(e)}"

\* C2: no exception escapes lambda_handler, whatever the event and the
\* context: every exception is caught at line 75 and the invocation ends by
\* returning an envelope.
C2_NoExceptionEscapes == pc # "raised"

\* a string without a scheme or without a host
LacksSchemeOrHost(v) ==
    v.t = "str" /\ v.s # << >> /\ (UrlScheme(v.s) = << >> \/ UrlNetloc(v.s) = << >>)

\* C3: for a candidate URL without a scheme or without a host, lambda_handler
\* returns the 'Invalid URL format: <url>' envelope, scrape_website is never
\* called and no network request is issued.
C3_InvalidUrlShortCircuits ==
    LacksSchemeOrHost(url) =>
        /\ pc = "done"
        /\ netCalls = 0
        /\ scraped_content = None
        /\ EnvelopeText(returned).fmt = "Error: {error_message}"
        /\ EnvelopeText(returned).args[1].fmt = "Invalid URL format: {url}"
        /\ EnvelopeText(returned).args[1].args = << url >>

\* a URL with a scheme and no host has been rejected
C3_Witness ==
    /\ pc = "done"
    /\ url = Str(U_nohost)
    /\ netCalls = 0
    /\ EnvelopeText(returned).args[1].fmt = "Invalid URL format: {url}"

\* the response declares a length over the limit
DeclaresOverLimit ==
    /\ response # None
    /\ response.content_length.t = "int"
    /\ response.content_length.i > MAX_CONTENT_SIZE

TooLargeDeclaredFmt == "Content too large: {content_length} bytes (max: {MAX_CONTENT_SIZE})"

\* C4, as claimed: whenever the response carries a Content-Length over
\* MAX_CONTENT_SIZE, scrape_website returns the 'Content too large' failure
\* before any chunk of the body is read.
C4_DeclaredTooLargeAlways ==
    DeclaresOverLimit =>
        /\ ~bodyRead
        /\ Scraped => FailedWith(TooLargeDeclaredFmt)

\* C4, amended: whenever the response carries a Content-Length over
\* MAX_CONTENT_SIZE no chunk of the body is read, and scrape_website returns
\* the 'Content too large' failure unless the status is one raise_for_status
\* raises on (4xx, 5xx), which is reported first as 'Request failed'.
C4_DeclaredTooLargeUnlessHttpError ==
    DeclaresOverLimit =>
        /\ ~bodyRead
        /\ pc \notin { "stream", "gunzip", "parse" }
        /\ Scraped =>
              IF 400 <= response.status /\ response.status < 600
              THEN FailedWith("Request failed: {str(e)}")
              ELSE /\ FailedWith(TooLargeDeclaredFmt)
                   /\ scraped_content.error.args =
                         << response.content_length, Num(MAX_CONTENT_SIZE) >>

\* a 200 response declaring too many bytes has been refused unread
C4_Witness ==
    /\ DeclaresOverLimit
    /\ response.status = 200
    /\ pc = "done"
    /\ FailedWith(TooLargeDeclaredFmt)
    /\ ~bodyRead

TooLargeStreamedFmt == "Content too large: exceeded {MAX_CONTENT_SIZE} bytes"

\* C5: while the body is streamed in chunks of at most the chunk size, the
\* buffer never holds more than MAX_CONTENT_SIZE bytes; once the bytes read
\* exceed MAX_CONTENT_SIZE the function has returned 'Content too large',
\* having read at most MAX_CONTENT_SIZE plus one chunk, and reads no more.
C5_StreamBounded ==
    /\ content_bytes <= MAX_CONTENT_SIZE
    /\ total_size <= MAX_CONTENT_SIZE + CHUNK_SIZE
    /\ total_size > MAX_CONTENT_SIZE =>
          /\ pc \in { "scraped", "done" }
          /\ FailedWith(TooLargeStreamedFmt)
    /\ FailedWith(TooLargeStreamedFmt) => total_size > MAX_CONTENT_SIZE

\* a body without Content-Length has run over the limit and was cut off
C5_Witness ==
    /\ response # None
    /\ response.content_length = None
    /\ total_size > MAX_CONTENT_SIZE
    /\ content_bytes <= MAX_CONTENT_SIZE
    /\ pc = "done"
    /\ FailedWith(TooLargeStreamedFmt)

\* C6: a response that declares gzip and whose body is a valid gzip stream of
\* an HTML document is scraped from the decompressed HTML; 'Failed to
\* decompress gzip content' is returned only when the body of a response
\* declaring gzip is not a valid gzip stream.
C6_GzipBodyDecompressed ==
    FailedWith("Failed to decompress gzip content: {str(e)}") =>
        DeclaresGzip(response) /\ response.gz = 0

\* C7: every final status outside 2xx makes scrape_website return a failure;
\* it returns a success only for 2xx.
C7_Non2xxFails ==
    (Scraped /\ response # None /\ ~(200 <= response.status /\ response.status < 300))
        => ~scraped_content.success

\* C8: a timeout at any stage of the exchange (connecting, waiting for the
\* response, reading a chunk of the body) gives the failure 'Request timeout
\* after {TIMEOUT} seconds', never 'Request failed' or 'Parsing error'.
C8_TimeoutReported ==
    (Scraped /\ fault \in { "connect_timeout", "read_timeout" }) =>
        /\ FailedWith("Request timeout after {TIMEOUT} seconds")
        /\ scraped_content.error.args = << Num(TIMEOUT) >>

\* C9: extracting the title and the description never makes a scrape fail:
\* every parsed document gives a success, with 'No title found' for a title
\* that is not available and the empty string for a missing description.
C9_MetadataNeverFails ==
    (Scraped /\ soup # None) =>
        /\ scraped_content.success
        /\ ~soup.title.found => scraped_content.title = TitleText(NoTitle)
        /\ ~soup.meta.found => scraped_content.description = << >>

\* C10: a cleaned text longer than the limit is returned as its first
\* MAX_TEXT_LEN characters followed by the truncation marker, a cleaned text
\* of at most MAX_TEXT_LEN characters unchanged, without the marker.
C10_Truncation ==
    (Scraped /\ scraped_content.success) =>
        LET clean_text == CleanText(soup.text) IN
        IF Len(clean_text) > MAX_TEXT_LEN
        THEN scraped_content.content =
                 SubSeq(clean_text, 1, MAX_TEXT_LEN) \o TruncationMarker
        ELSE scraped_content.content = clean_text

\* a text longer than the limit after cleaning has been cut and marked
C10_Witness ==
    /\ pc = "done"
    /\ Scraped
    /\ scraped_content.success
    /\ Len(CleanText(soup.text)) > MAX_TEXT_LEN
    /\ Len(scraped_content.content) = MAX_TEXT_LEN + Len(TruncationMarker)

\* the cleaned text of the parsed document was longer than the limit
Truncated == Len(CleanText(soup.text)) > MAX_TEXT_LEN

\* C11, as claimed: content_length is computed before the truncation marker
\* is appended: it is at most MAX_TEXT_LEN in every success result, and when
\* the text was truncated it differs from the length of the returned content.
C11_LengthExcludesMarker ==
    (Scraped /\ scraped_content.success) =>
        /\ scraped_content.content_length <= MAX_TEXT_LEN
        /\ Truncated => scraped_content.content_length # Len(scraped_content.content)

\* C11, amended: content_length is computed after the truncation marker is
\* appended: in every success result it is the length of the returned
\* content, and when the text was truncated it is MAX_TEXT_LEN plus the
\* length of the marker.
C11_LengthIncludesMarker ==
    (Scraped /\ scraped_content.success) =>
        /\ scraped_content.content_length = Len(scraped_content.content)
        /\ scraped_content.content_length <= MAX_TEXT_LEN + Len(TruncationMarker)
        /\ Truncated =>
              scraped_content.content_length = MAX_TEXT_LEN + Len(TruncationMarker)
        /\ ~Truncated => scraped_content.content_length <= MAX_TEXT_LEN

\* a truncated text has been returned with the marker counted in its length
C11_Witness ==
    /\ pc = "done"
    /\ Scraped
    /\ scraped_content.success
    /\ Truncated
    /\ scraped_content.content_length > MAX_TEXT_LEN

\* lambda_handler has chosen its URL (line 46 is passed)
UrlChosen == pc \notin { "idle", "entry", "resolve", "except", "raised" } /\ event.t = "dict"

\* requestBody is a dict whose field key is non-empty
HasField(ev, key) ==
    /\ RequestBody(ev).t = "dict"
    /\ key \in DOMAIN RequestBody(ev).d
    /\ Truthy(RequestBody(ev).d[key])

\* C12: when requestBody is a dict with a non-empty 'url', lambda_handler
\* validates and scrapes that value, whatever inputText and 'website_url'
\* hold; the text is searched for a URL only when neither 'url' nor
\* 'website_url' gives a non-empty value.
C12_StructuredUrlPreferred ==
    UrlChosen =>
        /\ HasField(event, "url") => url = RequestBody(event).d["url"]
        /\ (~HasField(event, "url") /\ HasField(event, "website_url")) =>
              url = RequestBody(event).d["website_url"]
        /\ (HasField(event, "url") /\ pc = "done" /\ Scraped /\ scraped_content.success) =>
              scraped_content.url = RequestBody(event).d["url"]

\* an event with a 'url' and another URL in its text was scraped at 'url'
C12_Witness ==
    /\ pc = "done"
    /\ event.t = "dict"
    /\ HasField(event, "url")
    /\ "inputText" \in DOMAIN event.d
    /\ extract_url_from_text(event.d["inputText"].s) # None
    /\ extract_url_from_text(event.d["inputText"].s) # url
    /\ url = RequestBody(event).d["url"]
    /\ netCalls = 1
    /\ Scraped
    /\ scraped_content.success

\* lambda_handler has returned after resolving the URL without an exception
ResolverReturned ==
    /\ pc = "done"
    /\ event.t = "dict"
    /\ ~(SearchesText(event) /\ InputData(event).t # "str")
\* the resolver found no URL, or found one that is not valid
NoUrlFound == ResolverReturned /\ ~Truthy(url)
InvalidUrl == ResolverReturned /\ Truthy(url) /\ ~is_valid_url(url)

NoUrlMessage == Msg("No valid URL provided. Please provide a URL to scrape.", << >>)
InvalidUrlMessage == Msg("Invalid URL format: {url}", << url >>)

\* a failed scrape is rendered as 'Failed to scrape website: ' and its error
FailedScrapeRendered ==
    (pc = "done" /\ Scraped /\ ~scraped_content.success) =>
        /\ EnvelopeText(returned).fmt = "Failed to scrape website: {error}"
        /\ EnvelopeText(returned).args = << scraped_content.error >>
        /\ scraped_content.error.fmt # ""

\* C13, as claimed: a failed scrape result is rendered as exactly 'Failed to
\* scrape website: ' followed by its non-empty error string, never as a
\* 'Successfully scraped' body, and a failure of the resolver (no URL found,
\* invalid URL format) is rendered as the resolver's message.
C13_FailuresRenderedAsMessage ==
    /\ FailedScrapeRendered
    /\ NoUrlFound => EnvelopeText(returned) = NoUrlMessage
    /\ InvalidUrl => EnvelopeText(returned) = InvalidUrlMessage

\* C13, amended: a failed scrape result is rendered as exactly 'Failed to
\* scrape website: ' followed by its non-empty error string, and a failure of
\* the resolver as 'Error: ' followed by the resolver's message.
C13_FailuresRenderedWithPrefix ==
    /\ FailedScrapeRendered
    /\ NoUrlFound =>
          /\ EnvelopeText(returned).fmt = "Error: {error_message}"
          /\ EnvelopeText(returned).args = << NoUrlMessage >>
    /\ InvalidUrl =>
          /\ EnvelopeText(returned).fmt = "Error: {error_message}"
          /\ EnvelopeText(returned).args = << InvalidUrlMessage >>

\* a failed scrape has been rendered
C13_Witness ==
    /\ pc = "done"
    /\ Scraped
    /\ ~scraped_content.success
    /\ scraped_content.error.fmt = "Request timeout after {TIMEOUT} seconds"
    /\ EnvelopeText(returned).fmt = "Failed to scrape website: {error}"
    /\ EnvelopeText(returned).args = << scraped_content.error >>

\* C14: on the first poll that observes FAILED, wait_for_agent_ready raises
\* 'Agent creation failed' to its caller without polling again; it returns
\* True only on a poll that observes NOT_PREPARED or PREPARED; and it ends
\* whatever the statuses are, raising 'Agent did not become ready' once
\* max_wait_time has elapsed without a ready status.
C14_WaitContract ==
    /\ failedAt > 0 =>
          /\ polls = failedAt
          /\ w_exc = "Agent creation failed"
          /\ w_pc \in { "except", "raised" }
    /\ w_pc = "returned" => agent_status \in { "NOT_PREPARED", "PREPARED" }
    /\ polls <= (MaxWaitTime + WAIT_SLEEP - 1) \div WAIT_SLEEP
    /\ (w_pc = "raised" /\ failedAt = 0) =>
          w_exc = "Agent did not become ready" /\ elapsed >= MaxWaitTime

====
